---- MODULE Spec2Model ----
(***************************************************************************)
(* A model of iron's Chain / StackChain (src/src/chain.rs).                *)
(*                                                                         *)
(* A StackChain owns an ordered Vec of boxed Middleware and a traversal    *)
(* marker (ChainStatus).  dispatch runs chain_enter and then chain_exit or *)
(* chain_error.  Middleware are pluggable: what a hook returns, what it    *)
(* writes to the request / response and what it stores in its own fields   *)
(* are inputs of the model, drawn from small sets.  Each hook call is one  *)
(* step, so that dispatches on different chain instances interleave.       *)
(***************************************************************************)
EXTENDS Integers, Sequences, FiniteSets, TLC

\* ---------------------------------------------------------------- bounds
MaxLen == 3        \* handlers linked to the configured chain (Spec)
MaxChains == 2     \* chain instances: the configured chain and its duplicates
DupMaxLen == 2     \* handlers linked to the template in SpecDup

Chains == 1..MaxChains
Payloads == {"x", "y"}          \* Error payloads (anything that is Show)
Effects == {"none", "req", "res"} \* what one hook call writes

\* ------------------------------------------------ Status (middleware.rs)
Continue == [tag |-> "Continue", payload |-> ""]
Unwind == [tag |-> "Unwind", payload |-> ""]
Error(e) == [tag |-> "Error", payload |-> e]
Status == {Continue, Unwind} \cup {Error(e) : e \in Payloads}

\* --------------------------------------------- ChainStatus (chain.rs:102)
Unhandled == [tag |-> "Unhandled", i |-> 0]
Unwound(i) == [tag |-> "Unwound", i |-> i]
Errored(i) == [tag |-> "Errored", i |-> i]

\* A handler in the style of examples/time.rs: one owned field.
NewHandler == [entry_time |-> 0]

VARIABLES
    live,      \* the chain instances that exist
    stack,     \* stack[c]: the Vec of boxes, each box an address in heap
    status,    \* status[c]: the traversal marker
    heap,      \* heap[a]: the fields of the middleware stored at address a
    pc,        \* pc[c]: "idle", "enter", "exit", "error" or "failed"
    mode,      \* mode[c]: the running call is part of "dispatch" or "direct"
    idx,       \* idx[c]: position of the running loop
    ret,       \* ret[c]: dispatch's local `status`, what chain_enter returned
    err,       \* err[c]: the payload the running chain_error was called with
    result,    \* result[c]: what the last completed call returned
    last,      \* last[c]: the last completed (or failed) call
    log,       \* log[c]: hook calls of the latest chain_enter and of the
               \*   traversal that followed it last
    request,   \* request[c]: the Request the calls are given
    response,  \* response[c]: the Response the calls are given
    linked,    \* linked[c]: the middleware handed to link, in call order
    entry0,    \* entry0[c]: the handlers' fields as linked or duplicated, or
               \*   as they were when the latest chain_enter began
    began      \* began[c]: the marker and the number of handlers the latest
               \*   chain_enter found when it began (n = -1: never entered)

vars == <<live, stack, status, heap, pc, mode, idx, ret, err, result, last,
          log, request, response, linked, entry0, began>>

NoResult == [tag |-> "none", payload |-> ""]

\* ------------------------------------------------------------ StackChain
\* StackChain::new
new == [stack |-> <<>>, status |-> Unhandled]

Init ==
    /\ live = {1}
    /\ stack = [c \in Chains |-> new.stack]
    /\ status = [c \in Chains |-> new.status]
    /\ heap = <<>>
    /\ pc = [c \in Chains |-> "idle"]
    /\ mode = [c \in Chains |-> "none"]
    /\ idx = [c \in Chains |-> 0]
    /\ ret = [c \in Chains |-> NoResult]
    /\ err = [c \in Chains |-> ""]
    /\ result = [c \in Chains |-> NoResult]
    /\ last = [c \in Chains |-> "new"]
    /\ log = [c \in Chains |-> <<>>]
    /\ request = [c \in Chains |-> <<>>]
    /\ response = [c \in Chains |-> <<>>]
    /\ linked = [c \in Chains |-> <<>>]
    /\ entry0 = [c \in Chains |-> <<>>]
    /\ began = [c \in Chains |-> [status |-> new.status, n |-> -1]]

\* --------------------------------------------------------- pure helpers
\* Vec::push, as link uses it.
PushFront(s, a) == <<a>> \o s
Push(s, a) == Append(s, a)

\* `self.status = Unhandled`, as chain_enter does before its loop and again
\* after it; m is the marker it overwrites.
KeepMarker(m) == m
ResetMarker(m) == Unhandled

\* The marker chain_enter stores when enter on index i returned r; m is the
\* marker before the call (left alone on Continue).
MarkerOnNext(r, i, m) ==
    CASE r.tag = "Unwind" -> Unwound(i + 1)
      [] r.tag = "Error" -> Errored(i + 1)
      [] OTHER -> m
MarkerOn(r, i, m) ==
    CASE r.tag = "Unwind" -> Unwound(i)
      [] r.tag = "Error" -> Errored(i)
      [] OTHER -> m

\* Whether chain_enter returns at once on r.
EnterStopsOnlyOnError(r) == r.tag = "Error"
EnterStops(r) == r.tag # "Continue"

\* chain_enter after its loop ran off the end of the stack: what it
\* returns, and what it does to the Response (nothing).
EnterFallThroughUnwind == Unwind
EnterFallThrough == Continue
FallThroughNotFound(res) == Append(res, <<"chain", 404>>)
FallThrough(res) == res

\* chain_exit's match on the marker: does it fail, and how long is the
\* prefix of the stack it walks in reverse.  mut_slice_to(i) fails on i > n.
ExitFailsOnlyOnSlice(m, n) == m.tag = "Unwound" /\ m.i > n
ExitFails(m, n) == m.tag = "Errored" \/ (m.tag = "Unwound" /\ m.i > n)
ExitRangeInclusive(m, n) == IF m.tag = "Unwound" THEN m.i + 1 ELSE n
ExitRangeNone(m, n) == IF m.tag = "Unwound" THEN m.i ELSE 0
ExitRange(m, n) == IF m.tag = "Unwound" THEN m.i ELSE n

\* chain_error's match on the marker.
ErrorFails(m, n) == m.tag # "Errored" \/ m.i > n
ErrorRangeAll(m, n) == n
ErrorRange(m, n) == m.i

\* chain_exit's loop after exit on index i returned r: `let _ =` drops r
\* and the walk goes on below i.
ExitNextStop(r, i) == IF r = Continue THEN i ELSE 0
ExitNext(r, i) == i

\* The hook each traversal calls on a handler.
HookSwapped(phase) ==
    CASE phase = "enter" -> "enter"
      [] phase = "exit" -> "enter"
      [] phase = "error" -> "on_error"
Hook(phase) ==
    CASE phase = "enter" -> "enter"
      [] phase = "exit" -> "exit"
      [] phase = "error" -> "on_error"

\* What chain_exit returns.
ExitReturn == Continue

\* dispatch: which traversal follows chain_enter, and what is returned.
DispatchBranchExit(st) == "exit"
DispatchBranch(st) == IF st.tag = "Error" THEN "error" ELSE "exit"
DispatchReturnExit(enterStatus, exitStatus) == exitStatus
DispatchReturn(enterStatus, exitStatus) == enterStatus

\* #[deriving(Clone)] on StackChain: the Vec of boxes is cloned box by box
\* into fresh allocations, the marker is copied.
CloneBoxesShared(s, h) == s
CloneBoxes(s, h) == [j \in 1..Len(s) |-> Len(h) + j]
CloneMarker(m) == m
\* #[deriving(Clone)] on a handler with owned fields (examples/time.rs).
CloneHandler(h) == h

\* One hook call's writes to the Request / Response it was handed.
Write(doc, target, w, op, i) ==
    IF w = target THEN Append(doc, <<op, i>>) ELSE doc

Call(op, i, r, w, e, t) ==
    [op |-> op, i |-> i, ret |-> r, eff |-> w, err |-> e, t |-> t]

\* The enter calls of a log: what the latest chain_enter did.
IsEnter(call) == call.op = "enter"
EnterCalls(l) == SelectSeq(l, IsEnter)

\* --------------------------------------------------------------- actions
\* link: push the boxed middleware.
link(c) ==
    /\ c \in live /\ pc[c] = "idle"
    /\ LET a == Len(heap) + 1 IN
        /\ heap' = Append(heap, NewHandler)
        /\ stack' = [stack EXCEPT ![c] = Push(@, a)]
        /\ linked' = [linked EXCEPT ![c] = Append(@, a)]
    /\ entry0' = [entry0 EXCEPT ![c] = Append(@, NewHandler)]
    /\ last' = [last EXCEPT ![c] = "link"]
    /\ UNCHANGED <<live, status, pc, mode, idx, ret, err, result, log,
                   request, response, began>>

\* clone / clone_box: duplicate chain c as the new instance d.
clone(c, d) ==
    /\ c \in live /\ pc[c] = "idle" /\ d \notin live
    /\ live' = live \cup {d}
    /\ stack' = [stack EXCEPT ![d] = CloneBoxes(stack[c], heap)]
    /\ heap' = heap \o [j \in 1..Len(stack[c]) |-> CloneHandler(heap[stack[c][j]])]
    /\ status' = [status EXCEPT ![d] = CloneMarker(status[c])]
    /\ linked' = [linked EXCEPT ![d] = stack'[d]]
    /\ entry0' = [entry0 EXCEPT ![d] =
            [j \in 1..Len(stack[c]) |-> CloneHandler(heap[stack[c][j]])]]
    /\ last' = [last EXCEPT ![d] = "clone"]
    /\ UNCHANGED <<pc, mode, idx, ret, err, result, log, request, response,
                   began>>

\* The owner lets instance c go out of scope: the chain and the handlers it
\* owns are freed.
drop(c) ==
    /\ c \in live /\ pc[c] \in {"idle", "failed"}
    /\ live' = live \ {c}
    /\ heap' = [a \in 1..Len(heap) |->
            IF \E j \in 1..Len(stack[c]) : stack[c][j] = a
            THEN NewHandler ELSE heap[a]]
    /\ stack' = [stack EXCEPT ![c] = new.stack]
    /\ status' = [status EXCEPT ![c] = new.status]
    /\ pc' = [pc EXCEPT ![c] = "idle"]
    /\ mode' = [mode EXCEPT ![c] = "none"]
    /\ idx' = [idx EXCEPT ![c] = 0]
    /\ ret' = [ret EXCEPT ![c] = NoResult]
    /\ err' = [err EXCEPT ![c] = ""]
    /\ result' = [result EXCEPT ![c] = NoResult]
    /\ last' = [last EXCEPT ![c] = "new"]
    /\ log' = [log EXCEPT ![c] = <<>>]
    /\ request' = [request EXCEPT ![c] = <<>>]
    /\ response' = [response EXCEPT ![c] = <<>>]
    /\ linked' = [linked EXCEPT ![c] = <<>>]
    /\ entry0' = [entry0 EXCEPT ![c] = <<>>]
    /\ began' = [began EXCEPT ![c] = [status |-> new.status, n |-> -1]]

\* The first lines of chain_enter (reset of the marker), entered from
\* dispatch or called directly, with a fresh Request / Response.
BeginEnter(c, how) ==
    /\ c \in live /\ pc[c] = "idle"
    /\ status' = [status EXCEPT ![c] = ResetMarker(@)]
    /\ began' = [began EXCEPT ![c] = [status |-> status[c], n |-> Len(stack[c])]]
    /\ pc' = [pc EXCEPT ![c] = "enter"]
    /\ mode' = [mode EXCEPT ![c] = how]
    /\ idx' = [idx EXCEPT ![c] = 0]
    /\ ret' = [ret EXCEPT ![c] = NoResult]
    /\ log' = [log EXCEPT ![c] = <<>>]
    /\ request' = [request EXCEPT ![c] = <<>>]
    /\ response' = [response EXCEPT ![c] = <<>>]
    /\ entry0' = [entry0 EXCEPT ![c] = [j \in 1..Len(stack[c]) |-> heap[stack[c][j]]]]
    /\ UNCHANGED <<live, stack, heap, err, result, last, linked>>

dispatch_call(c) == BeginEnter(c, "dispatch")
chain_enter_call(c) == BeginEnter(c, "direct")

\* chain_exit is entered with marker m: fail, or start the reverse walk.
EnterExit(c, m, how) ==
    IF ExitFails(m, Len(stack[c]))
    THEN /\ pc' = [pc EXCEPT ![c] = "failed"]
         /\ idx' = [idx EXCEPT ![c] = 0]
         /\ last' = [last EXCEPT ![c] = how]
    ELSE /\ pc' = [pc EXCEPT ![c] = "exit"]
         /\ idx' = [idx EXCEPT ![c] = ExitRange(m, Len(stack[c]))]
         /\ UNCHANGED last

\* chain_error is entered with marker m and payload e.
EnterError(c, m, how) ==
    IF ErrorFails(m, Len(stack[c]))
    THEN /\ pc' = [pc EXCEPT ![c] = "failed"]
         /\ idx' = [idx EXCEPT ![c] = 0]
         /\ last' = [last EXCEPT ![c] = how]
    ELSE /\ pc' = [pc EXCEPT ![c] = "error"]
         /\ idx' = [idx EXCEPT ![c] = ErrorRange(m, Len(stack[c]))]
         /\ UNCHANGED last

\* chain_enter returns st, having left marker m: back to the direct caller,
\* or on into dispatch's match.
AfterEnter(c, st, m) ==
    IF mode[c] = "direct"
    THEN /\ pc' = [pc EXCEPT ![c] = "idle"]
         /\ mode' = [mode EXCEPT ![c] = "none"]
         /\ idx' = [idx EXCEPT ![c] = 0]
         /\ result' = [result EXCEPT ![c] = st]
         /\ last' = [last EXCEPT ![c] = "chain_enter"]
         /\ UNCHANGED <<ret, err>>
    ELSE /\ ret' = [ret EXCEPT ![c] = st]
         /\ UNCHANGED <<mode, result>>
         /\ IF DispatchBranch(st) = "error"
            THEN /\ err' = [err EXCEPT ![c] = st.payload]
                 /\ EnterError(c, m, "dispatch")
            ELSE /\ UNCHANGED err
                 /\ EnterExit(c, m, "dispatch")

\* One turn of chain_enter's loop: enter on index idx returns r, having
\* stored t in its own field and written w.
enter_step(c, r, t, w) ==
    /\ pc[c] = "enter" /\ idx[c] < Len(stack[c])
    /\ LET i == idx[c]
           m == MarkerOn(r, i, status[c])
       IN
        /\ heap' = [heap EXCEPT ![stack[c][i + 1]].entry_time = t]
        /\ log' = [log EXCEPT ![c] = Append(@, Call(Hook("enter"), i, r, w, "", t))]
        /\ request' = [request EXCEPT ![c] = Write(@, "req", w, Hook("enter"), i)]
        /\ response' = [response EXCEPT ![c] = Write(@, "res", w, Hook("enter"), i)]
        /\ status' = [status EXCEPT ![c] = m]
        /\ IF EnterStops(r)
           THEN AfterEnter(c, r, m)
           ELSE /\ idx' = [idx EXCEPT ![c] = i + 1]
                /\ UNCHANGED <<pc, mode, ret, err, result, last>>
    /\ UNCHANGED <<live, stack, linked, entry0, began>>

\* The loop of chain_enter ran off the end of the stack.
enter_return(c) ==
    /\ pc[c] = "enter" /\ idx[c] = Len(stack[c])
    /\ status' = [status EXCEPT ![c] = ResetMarker(@)]
    /\ response' = [response EXCEPT ![c] = FallThrough(@)]
    /\ AfterEnter(c, EnterFallThrough, ResetMarker(status[c]))
    /\ UNCHANGED <<live, stack, heap, log, request, linked, entry0, began>>

\* chain_exit called on its own.
chain_exit_call(c) ==
    /\ c \in live /\ pc[c] = "idle"
    /\ mode' = [mode EXCEPT ![c] = "direct"]
    /\ EnterExit(c, status[c], "chain_exit")
    /\ log' = [log EXCEPT ![c] = EnterCalls(@)]
    /\ request' = [request EXCEPT ![c] = <<>>]
    /\ response' = [response EXCEPT ![c] = <<>>]
    /\ UNCHANGED <<live, stack, status, heap, ret, err, result, linked, entry0, began>>

\* One turn of chain_exit's loop: exit on index idx - 1 returns r (dropped).
exit_step(c, r, w) ==
    /\ pc[c] = "exit" /\ idx[c] > 0
    /\ LET i == idx[c] - 1 IN
        /\ log' = [log EXCEPT ![c] = Append(@, Call(Hook("exit"), i, r, w, "", 0))]
        /\ request' = [request EXCEPT ![c] = Write(@, "req", w, Hook("exit"), i)]
        /\ response' = [response EXCEPT ![c] = Write(@, "res", w, Hook("exit"), i)]
        /\ idx' = [idx EXCEPT ![c] = ExitNext(r, i)]
    /\ UNCHANGED <<live, stack, status, heap, pc, mode, ret, err, result, last,
                   linked, entry0, began>>

\* chain_exit returns; inside dispatch, dispatch returns too.
exit_return(c) ==
    /\ pc[c] = "exit" /\ idx[c] = 0
    /\ pc' = [pc EXCEPT ![c] = "idle"]
    /\ result' = [result EXCEPT ![c] =
            IF mode[c] = "dispatch" THEN DispatchReturn(ret[c], ExitReturn)
            ELSE ExitReturn]
    /\ last' = [last EXCEPT ![c] =
            IF mode[c] = "dispatch" THEN "dispatch" ELSE "chain_exit"]
    /\ mode' = [mode EXCEPT ![c] = "none"]
    /\ UNCHANGED <<live, stack, status, heap, idx, ret, err, log, request,
                   response, linked, entry0, began>>

\* chain_error called on its own with payload e.
chain_error_call(c, e) ==
    /\ c \in live /\ pc[c] = "idle"
    /\ mode' = [mode EXCEPT ![c] = "direct"]
    /\ err' = [err EXCEPT ![c] = e]
    /\ EnterError(c, status[c], "chain_error")
    /\ log' = [log EXCEPT ![c] = EnterCalls(@)]
    /\ request' = [request EXCEPT ![c] = <<>>]
    /\ response' = [response EXCEPT ![c] = <<>>]
    /\ UNCHANGED <<live, stack, status, heap, ret, result, linked, entry0, began>>

\* One turn of chain_error's loop: on_error on index idx - 1.
error_step(c, w) ==
    /\ pc[c] = "error" /\ idx[c] > 0
    /\ LET i == idx[c] - 1 IN
        /\ log' = [log EXCEPT ![c] =
                Append(@, Call(Hook("error"), i, NoResult, w, err[c], 0))]
        /\ request' = [request EXCEPT ![c] = Write(@, "req", w, Hook("error"), i)]
        /\ response' = [response EXCEPT ![c] = Write(@, "res", w, Hook("error"), i)]
        /\ idx' = [idx EXCEPT ![c] = i]
    /\ UNCHANGED <<live, stack, status, heap, pc, mode, ret, err, result, last,
                   linked, entry0, began>>

\* chain_error returns (); inside dispatch, dispatch returns `status`.
error_return(c) ==
    /\ pc[c] = "error" /\ idx[c] = 0
    /\ pc' = [pc EXCEPT ![c] = "idle"]
    /\ result' = [result EXCEPT ![c] =
            IF mode[c] = "dispatch" THEN DispatchReturn(ret[c], NoResult)
            ELSE NoResult]
    /\ last' = [last EXCEPT ![c] =
            IF mode[c] = "dispatch" THEN "dispatch" ELSE "chain_error"]
    /\ mode' = [mode EXCEPT ![c] = "none"]
    /\ UNCHANGED <<live, stack, status, heap, idx, ret, err, log, request,
                   response, linked, entry0, began>>

\* -------------------------------------------------------- specifications
\* Spec: one chain instance, built with link and driven through dispatch
\* and through the three traversals called on their own.  Hooks return any
\* Status; they write nothing and store one clock reading.
ExitStatus == {Continue, Unwind, Error("x")}

Link == Len(stack[1]) < MaxLen /\ link(1)
Dispatch == dispatch_call(1)
ChainEnter == chain_enter_call(1)
EnterStep == \E r \in Status : enter_step(1, r, 1, "none")
EnterReturn == enter_return(1)
ChainExit == chain_exit_call(1)
ExitStep == \E r \in ExitStatus : exit_step(1, r, "none")
ExitDone == exit_return(1)
ChainError == \E e \in Payloads : chain_error_call(1, e)
ErrorStep == error_step(1, "none")
ErrorDone == error_return(1)

Next ==
    \/ Link
    \/ Dispatch
    \/ ChainEnter
    \/ EnterStep
    \/ EnterReturn
    \/ ChainExit
    \/ ExitStep
    \/ ExitDone
    \/ ChainError
    \/ ErrorStep
    \/ ErrorDone

Spec == Init /\ [][Next]_vars

\* FairSpec: Spec for hooks that each return.  The traversals are sequential
\* code, so once a call is inside a traversal its next step is taken: the
\* hook it calls returns, or the traversal itself returns.
Running ==
    \/ EnterStep
    \/ EnterReturn
    \/ ExitStep
    \/ ExitDone
    \/ ErrorStep
    \/ ErrorDone

FairSpec == Init /\ [][Next]_vars /\ WF_vars(Running)

\* SpecIO: one chain instance serving requests through dispatch, with hooks
\* that write to the Request and the Response.
IoStatus == {Continue, Unwind, Error("x")}

IoLink == Len(stack[1]) < MaxLen /\ link(1)
IoDispatch == dispatch_call(1)
IoEnterStep == \E r \in IoStatus, w \in Effects : enter_step(1, r, 1, w)
IoEnterReturn == enter_return(1)
IoExitStep == \E w \in Effects : exit_step(1, Continue, w)
IoExitDone == exit_return(1)
IoErrorStep == \E w \in Effects : error_step(1, w)
IoErrorDone == error_return(1)

NextIO ==
    \/ IoLink
    \/ IoDispatch
    \/ IoEnterStep
    \/ IoEnterReturn
    \/ IoExitStep
    \/ IoExitDone
    \/ IoErrorStep
    \/ IoErrorDone

SpecIO == Init /\ [][NextIO]_vars

\* SpecDup: a template is configured, then duplicated; every instance
\* serves one request through dispatch, the hook calls of different
\* instances interleaving.  Hooks store the clock reading they took; the
\* requests arrive at different times, so the readings taken while serving
\* one request differ from those taken while serving another.
Clock(c) == c
DupStatus == {Continue, Unwind, Error("x")}

DupLink == live = {1} /\ last[1] # "dispatch" /\ Len(stack[1]) < DupMaxLen /\ link(1)
DupClone == \E d \in Chains : d = Cardinality(live) + 1 /\ clone(1, d)
DupDispatch == \E c \in live : last[c] # "dispatch" /\ dispatch_call(c)
DupEnterStep == \E c \in live, r \in DupStatus : enter_step(c, r, Clock(c), "none")
DupEnterReturn == \E c \in live : enter_return(c)
DupExitStep == \E c \in live : exit_step(c, Continue, "none")
DupExitDone == \E c \in live : exit_return(c)
DupErrorStep == \E c \in live : error_step(c, "none")
DupErrorDone == \E c \in live : error_return(c)

NextDup ==
    \/ DupLink
    \/ DupClone
    \/ DupDispatch
    \/ DupEnterStep
    \/ DupEnterReturn
    \/ DupExitStep
    \/ DupExitDone
    \/ DupErrorStep
    \/ DupErrorDone

SpecDup == Init /\ [][NextDup]_vars

\* SpecAll: an instance built with link and driven through dispatch and
\* through the three traversals called on their own, any number of times
\* and in any order.  Between two calls the owner may replace the instance
\* by a duplicate of it (chain = chain.clone()), so a duplicate is taken in
\* every marker state an instance can be left in; the instance it was
\* taken from is dropped before the duplicate is used.
AllStatus == {Continue, Unwind, Error("x")}
Quiet(c) == live = {c}

AllLink == \E c \in live : Quiet(c) /\ Len(stack[c]) < DupMaxLen /\ link(c)
AllClone == \E c \in live, d \in Chains : Quiet(c) /\ d = c + 1 /\ clone(c, d)
AllDrop == \E c, d \in live : c < d /\ drop(c)
AllDispatch == \E c \in live : Quiet(c) /\ dispatch_call(c)
AllChainEnter == \E c \in live : Quiet(c) /\ chain_enter_call(c)
AllEnterStep == \E c \in live, r \in AllStatus : enter_step(c, r, 1, "none")
AllEnterReturn == \E c \in live : enter_return(c)
AllChainExit == \E c \in live : Quiet(c) /\ chain_exit_call(c)
AllExitStep == \E c \in live : exit_step(c, Continue, "none")
AllExitDone == \E c \in live : exit_return(c)
AllChainError == \E c \in live : Quiet(c) /\ chain_error_call(c, "x")
AllErrorStep == \E c \in live : error_step(c, "none")
AllErrorDone == \E c \in live : error_return(c)

NextAll ==
    \/ AllLink
    \/ AllClone
    \/ AllDrop
    \/ AllDispatch
    \/ AllChainEnter
    \/ AllEnterStep
    \/ AllEnterReturn
    \/ AllChainExit
    \/ AllExitStep
    \/ AllExitDone
    \/ AllChainError
    \/ AllErrorStep
    \/ AllErrorDone

SpecAll == Init /\ [][NextAll]_vars

\* ------------------------------------------------- reading a chain's log
\* The indices on which hook op was called, in call order.
Indices(l, op) ==
    LET F[k \in 0..Len(l)] ==
            IF k = 0 THEN <<>>
            ELSE IF l[k].op = op THEN Append(F[k - 1], l[k].i) ELSE F[k - 1]
    IN F[Len(l)]

Up(n) == [j \in 1..n |-> j - 1]        \* 0, 1, ..., n-1
Down(n) == [j \in 1..n |-> n - j]      \* n-1, ..., 1, 0

\* Every enter call comes before every exit / on_error call.
EntersFirst(l) ==
    \A a, b \in 1..Len(l) : a < b /\ l[b].op = "enter" => l[a].op = "enter"

\* Handlers 0..k-1 returned Continue from enter and handler k returned a
\* Status with tag tg.
StoppedAt(l, k, tg) ==
    \E j \in 1..Len(l) :
        /\ l[j].op = "enter" /\ l[j].i = k /\ l[j].ret.tag = tg
        /\ \A a \in 1..(j - 1) : l[a].op = "enter" => l[a].ret = Continue
        /\ \A i \in 0..(k - 1) :
            \E a \in 1..(j - 1) : l[a].op = "enter" /\ l[a].i = i

\* Every enter call of the log returned Continue.
AllContinue(l) == \A j \in 1..Len(l) : l[j].op = "enter" => l[j].ret = Continue

\* What chain_enter produced, read off the hooks' returns.
EnterResult(l) ==
    LET e == EnterCalls(l) IN
    IF e = <<>> THEN Continue ELSE e[Len(e)].ret

\* A dispatch on c is over: it returned, or it failed.
Over(c) == last[c] = "dispatch" /\ pc[c] \in {"idle", "failed"}
Returned(c) == last[c] = "dispatch" /\ pc[c] = "idle"

\* ---------------------------------------------------------------- claims
\* C1: dispatch returns exactly the Status chain_enter produced in that
\* dispatch (Continue, Unwind, or Error with the same payload), whichever
\* of chain_exit / chain_error ran and whatever the exit hooks returned.
C1_DispatchReturnsEnterStatus ==
    \A c \in live : Over(c) =>
        /\ pc[c] = "idle"
        /\ result[c] = ret[c]
        /\ result[c] = EnterResult(log[c])

C1_Witness ==
    /\ Returned(1) /\ result[1] = Unwind
    /\ \E j \in 1..Len(log[1]) : log[1][j].op = "exit" /\ log[1][j].ret = Error("x")

\* C2: Unwind at k.  When handlers 0..k-1 return Continue and handler k
\* returns Unwind, one dispatch calls enter on 0..k ascending and on nothing
\* else, then exit on k-1..0 descending and on nothing else, calls no
\* on_error, and returns Unwind.
C2_UnwindAtK ==
    \A c \in live : \A k \in 0..(Len(stack[c]) - 1) :
        Over(c) /\ StoppedAt(log[c], k, "Unwind") =>
            /\ pc[c] = "idle"
            /\ Indices(log[c], "enter") = Up(k + 1)
            /\ Indices(log[c], "exit") = Down(k)
            /\ Indices(log[c], "on_error") = <<>>
            /\ EntersFirst(log[c])
            /\ result[c] = Unwind

C2_Witness ==
    /\ Returned(1) /\ Len(stack[1]) = 3 /\ StoppedAt(log[1], 2, "Unwind")
    /\ Indices(log[1], "exit") = <<1, 0>>

\* C3: Error at k.  When handlers 0..k-1 return Continue and handler k
\* returns Error(e), one dispatch calls enter on 0..k ascending and on
\* nothing else, then on_error on k-1..0 descending, each call given e,
\* calls no exit, and returns Error(e).
C3_ErrorAtK ==
    \A c \in live : \A k \in 0..(Len(stack[c]) - 1) :
        Over(c) /\ StoppedAt(log[c], k, "Error") =>
            LET e == EnterResult(log[c]).payload IN
            /\ pc[c] = "idle"
            /\ Indices(log[c], "enter") = Up(k + 1)
            /\ Indices(log[c], "on_error") = Down(k)
            /\ \A j \in 1..Len(log[c]) :
                log[c][j].op = "on_error" => log[c][j].err = e
            /\ Indices(log[c], "exit") = <<>>
            /\ EntersFirst(log[c])
            /\ result[c] = Error(e)

C3_Witness ==
    /\ Returned(1) /\ Len(stack[1]) = 3 /\ StoppedAt(log[1], 2, "Error")
    /\ Indices(log[1], "on_error") = <<1, 0>>
    /\ result[1] = Error("y")

\* C4: all-continue chain.  When every enter returns Continue, one dispatch
\* calls enter on 0..N-1 ascending, then exit on N-1..0 descending, calls no
\* on_error, and returns Continue.
C4_AllContinue ==
    \A c \in live :
        Over(c) /\ AllContinue(log[c]) =>
            /\ pc[c] = "idle"
            /\ Indices(log[c], "enter") = Up(Len(stack[c]))
            /\ Indices(log[c], "exit") = Down(Len(stack[c]))
            /\ Indices(log[c], "on_error") = <<>>
            /\ EntersFirst(log[c])
            /\ result[c] = Continue

C4_Witness ==
    /\ Returned(1) /\ AllContinue(log[1])
    /\ Indices(log[1], "enter") = <<0, 1, 2>>
    /\ Indices(log[1], "exit") = <<2, 1, 0>>

\* What the handlers of c hold if nothing but c's own latest traversal
\* touched them: the reading stored by their enter call, if they had one.
AloneFields(c) ==
    [j \in 1..Len(stack[c]) |->
        IF \E a \in 1..Len(log[c]) : log[c][a].op = "enter" /\ log[c][a].i = j - 1
        THEN [entry_time |->
                log[c][CHOOSE a \in 1..Len(log[c]) :
                            log[c][a].op = "enter" /\ log[c][a].i = j - 1].t]
        ELSE entry0[c][j]]

\* The marker c's dispatch leaves when run alone with the same hook returns.
AloneMarker(c) ==
    LET e == EnterCalls(log[c]) IN
    IF e = <<>> THEN Unhandled
    ELSE CASE e[Len(e)].ret.tag = "Unwind" -> Unwound(e[Len(e)].i)
           [] e[Len(e)].ret.tag = "Error" -> Errored(e[Len(e)].i)
           [] OTHER -> Unhandled

Fields(c) == [j \in 1..Len(stack[c]) |-> heap[stack[c][j]]]

\* A step in which chain c itself made no move.
Idle(c) ==
    pc'[c] = pc[c] /\ log'[c] = log[c] /\ last'[c] = last[c] /\ stack'[c] = stack[c]

C5_Alone ==
    \A c \in live :
        /\ Fields(c) = AloneFields(c)
        /\ Over(c) => pc[c] = "idle" /\ status[c] = AloneMarker(c)

C5_Frame ==
    \A c \in live : Idle(c) =>
        /\ status'[c] = status[c]
        /\ [j \in 1..Len(stack'[c]) |-> heap'[stack'[c][j]]] = Fields(c)

ExitCall(c) ==
    pc[c] = "idle" /\ (pc'[c] = "exit" \/ (pc'[c] = "failed" /\ last'[c] = "chain_exit"))
ErrorCall(c) ==
    pc[c] = "idle" /\ (pc'[c] = "error" \/ (pc'[c] = "failed" /\ last'[c] = "chain_error"))

C6_Misuse(c) ==
    \/ ExitCall(c) /\ status[c].tag = "Errored"
    \/ ErrorCall(c) /\ status[c].tag \in {"Unhandled", "Unwound"}

C6_Step ==
    \A c \in live :
        /\ C6_Misuse(c) =>
            /\ pc'[c] = "failed"
            /\ status'[c] = status[c]
            /\ result'[c] = result[c]
            /\ Indices(log'[c], "exit") = <<>>
            /\ Indices(log'[c], "on_error") = <<>>
            /\ heap' = heap
        /\ pc[c] = "failed" =>
            /\ pc'[c] = "failed"
            /\ status'[c] = status[c]
            /\ log'[c] = log[c]
            /\ result'[c] = result[c]

\* C6: misuse is fatal and has no side effect.  chain_exit called on a
\* marker Errored(i), or chain_error called on a marker Unhandled or
\* Unwound(i), ends in the failure outcome (no Status is returned), calls no
\* exit or on_error hook and leaves the marker as it was.
C6_MisuseIsFatal == [][C6_Step]_vars

C6_Witness ==
    /\ pc[1] = "failed" /\ last[1] = "chain_exit"
    /\ status[1] = Errored(1) /\ Len(stack[1]) = 2
    /\ Indices(log[1], "enter") = <<0, 1>>
    /\ Indices(log[1], "exit") = <<>>

C7_Stored == \A c \in live : stack[c] = linked[c]

C7_Step ==
    \A c \in live :
        stack'[c] # stack[c] \/ linked'[c] # linked[c] =>
            /\ Len(linked'[c]) = Len(linked[c]) + 1
            /\ stack'[c] = Append(stack[c], linked'[c][Len(linked'[c])])
            /\ status'[c] = status[c]

\* C7: link appends.  After new() and link(m1), ..., link(mn) the handler
\* sequence is exactly m1, ..., mn; each link adds one handler at the end,
\* leaves the stored handlers and their order alone, and leaves the marker
\* alone.
C7_LinkAppends == [](C7_Stored) /\ [][C7_Step]_vars

C7_Witness ==
    /\ last[1] = "link" /\ Len(stack[1]) = 3 /\ stack[1] = linked[1]
    /\ status[1] = Errored(1)

\* C8: no-op chain.  dispatch on a chain with no linked handler returns
\* Continue, calls no hook and leaves the marker Unhandled.
C8_NoOpChain ==
    \A c \in live :
        Over(c) /\ stack[c] = <<>> =>
            /\ pc[c] = "idle"
            /\ result[c] = Continue
            /\ log[c] = <<>>
            /\ status[c] = Unhandled

C8_Witness == Returned(1) /\ stack[1] = <<>> /\ result[1] = Continue

\* The writes of the hooks of log l to target ("req" or "res"), applied in
\* call order to an untouched Request / Response.
Applied(l, target) ==
    LET F[k \in 0..Len(l)] ==
            IF k = 0 THEN <<>>
            ELSE Write(F[k - 1], target, l[k].eff, l[k].op, l[k].i)
    IN F[Len(l)]

C10_NotFoundReturned ==
    \A c \in live :
        Returned(c) /\ (\A j \in 1..Len(log[c]) : log[c][j].ret # Unwind) =>
            \E j \in 1..Len(response[c]) : response[c][j] = <<"chain", 404>>

\* How often hook op was called on index i.
Count(l, op, i) == Cardinality({a \in 1..Len(l) : l[a].op = op /\ l[a].i = i})

\* Index i was entered and its enter returned Continue.
Committed(l, i) ==
    \E a \in 1..Len(l) : l[a].op = "enter" /\ l[a].i = i /\ l[a].ret = Continue

\* C11: scoped pairing within a dispatch.  Each handler whose enter returned
\* Continue gets exactly one cleanup call: exit if the enter phase ended in
\* Continue or Unwind, on_error if it ended in Error.  A handler whose enter
\* returned Unwind or Error, or was never called, gets neither.  All enter
\* calls of the dispatch come before all of its exit / on_error calls.
C11_ScopedPairing ==
    \A c \in live : Over(c) =>
        /\ pc[c] = "idle"
        /\ EntersFirst(log[c])
        /\ \A i \in 0..(Len(stack[c]) - 1) :
            LET errored == EnterResult(log[c]).tag = "Error" IN
            /\ Count(log[c], "enter", i) <= 1
            /\ Count(log[c], "exit", i) =
                    IF Committed(log[c], i) /\ ~errored THEN 1 ELSE 0
            /\ Count(log[c], "on_error", i) =
                    IF Committed(log[c], i) /\ errored THEN 1 ELSE 0

C11_Witness ==
    /\ Returned(1) /\ Len(stack[1]) = 3
    /\ Committed(log[1], 0) /\ ~Committed(log[1], 1)
    /\ Count(log[1], "enter", 1) = 1 /\ Count(log[1], "enter", 2) = 0
    /\ Count(log[1], "on_error", 0) = 1

\* C12: dispatch never reaches the contract-violation failure.  Whatever
\* the hooks return and whatever ran on the instance before, the marker is
\* Unhandled or Unwound(i) when dispatch invokes chain_exit and Errored(i)
\* when it invokes chain_error; one of the two traversals runs per dispatch,
\* chain_error exactly when chain_enter returned Error.
C12_DispatchNeverFails ==
    \A c \in live :
        /\ last[c] = "dispatch" => pc[c] # "failed"
        /\ mode[c] = "dispatch" /\ pc[c] = "exit" =>
            /\ status[c].tag \in {"Unhandled", "Unwound"}
            /\ ret[c].tag \in {"Continue", "Unwind"}
        /\ mode[c] = "dispatch" /\ pc[c] = "error" =>
            /\ status[c].tag = "Errored"
            /\ ret[c].tag = "Error"
        /\ Over(c) =>
            /\ ret[c].tag = "Error" => Indices(log[c], "exit") = <<>>
            /\ ret[c].tag # "Error" => Indices(log[c], "on_error") = <<>>

C12_Witness ==
    /\ mode[1] = "dispatch" /\ pc[1] = "error" /\ idx[1] = 2
    /\ began[1].status.tag = "Unwound" /\ status[1] = Errored(2)

\* The latest chain_enter on c has returned and no later chain_enter began.
EnterReturned(c) ==
    \/ last[c] = "chain_enter" /\ pc[c] = "idle"
    \/ mode[c] = "dispatch" /\ pc[c] \in {"exit", "error"}
EnterStatus(c) == IF mode[c] = "dispatch" THEN ret[c] ELSE result[c]

\* C13: marker postcondition of chain_enter.  When chain_enter returns the
\* marker is Unwound(i) iff i is the smallest index whose enter returned
\* non-Continue and that return was Unwind, Errored(i) iff it was Error,
\* and Unhandled iff every enter returned Continue; the returned Status is
\* Unwind, Error(e) and Continue respectively; no index above i was entered.
C13_MarkerPostcondition ==
    \A c \in live : EnterReturned(c) =>
        LET n == Len(stack[c]) l == EnterCalls(log[c]) IN
        /\ \A i \in 0..n :
            /\ status[c] = Unwound(i) <=> StoppedAt(l, i, "Unwind")
            /\ status[c] = Errored(i) <=> StoppedAt(l, i, "Error")
            /\ status[c] \in {Unwound(i), Errored(i)} =>
                    Indices(l, "enter") = Up(i + 1)
        /\ status[c] = Unhandled <=>
                AllContinue(l) /\ Indices(l, "enter") = Up(n)
        /\ status[c].tag = "Unwound" => EnterStatus(c) = Unwind
        /\ status[c].tag = "Errored" =>
                /\ EnterStatus(c).tag = "Error"
                /\ EnterStatus(c) = l[Len(l)].ret
        /\ status[c].tag = "Unhandled" => EnterStatus(c) = Continue

C13_Witness ==
    /\ last[1] = "chain_enter" /\ pc[1] = "idle" /\ Len(stack[1]) = 3
    /\ status[1] = Errored(1) /\ result[1] = Error("y")
    /\ Indices(log[1], "enter") = <<0, 1>>

\* How many handlers returned Continue from enter, and the marker that the
\* enter returns of a log determine on a chain of n handlers.
Continued(l) == Cardinality({a \in 1..Len(l) : l[a].op = "enter" /\ l[a].ret = Continue})
MarkerOf(l) ==
    CASE EnterResult(l).tag = "Unwind" -> Unwound(Continued(l))
      [] EnterResult(l).tag = "Error" -> Errored(Continued(l))
      [] OTHER -> Unhandled

\* C14: the marker is recomputed by every enter phase and nothing leaks
\* from one dispatch into the next, on the same instance or on a duplicate
\* taken in any marker state.  Whatever the marker was when the dispatch
\* began, the hooks called, the marker left behind and the Status returned
\* are those the enter returns of this dispatch determine; in particular a
\* dispatch that begins with the marker Errored and in which every enter
\* returns Continue runs exit on all handlers and does not fail.
C14_NoLeak ==
    \A c \in live : Over(c) =>
        LET l == log[c]  n == Len(stack[c])  k == Continued(l) IN
        /\ pc[c] = "idle"
        /\ EntersFirst(l)
        /\ Indices(l, "enter") =
                IF EnterResult(l) = Continue THEN Up(n) ELSE Up(k + 1)
        /\ \A a \in 1..k : l[a].ret = Continue
        /\ Indices(l, "exit") =
                IF EnterResult(l).tag = "Error" THEN <<>> ELSE Down(k)
        /\ Indices(l, "on_error") =
                IF EnterResult(l).tag = "Error" THEN Down(k) ELSE <<>>
        /\ status[c] = MarkerOf(l)
        /\ result[c] = EnterResult(l)
        /\ began[c].status.tag = "Errored" /\ AllContinue(l) =>
                Indices(l, "exit") = Down(n)

C14_Witness ==
    /\ live = {2} /\ Returned(2) /\ Len(stack[2]) = 2
    /\ began[2].status = Errored(1)
    /\ AllContinue(log[2])
    /\ Indices(log[2], "exit") = <<1, 0>>
    /\ status[2] = Unhandled

\* chain_exit on c ran to its end, on its own or inside dispatch.
ExitCompleted(c) ==
    /\ pc[c] = "idle"
    /\ \/ last[c] = "chain_exit"
       \/ last[c] = "dispatch" /\ ret[c].tag # "Error"

C15_Completed ==
    \A c \in live : ExitCompleted(c) =>
        /\ Indices(log[c], "exit") =
                Down(IF status[c].tag = "Unwound" THEN status[c].i
                     ELSE Len(stack[c]))
        /\ Indices(log[c], "on_error") = <<>>
        /\ last[c] = "chain_exit" => result[c] = Continue
        /\ last[c] = "dispatch" => result[c] = EnterResult(log[c])

C15_Step ==
    \A c \in live : pc[c] = "exit" =>
        /\ pc'[c] \in {"exit", "idle"}
        /\ status'[c] = status[c]
        /\ ret'[c] = ret[c]
        /\ idx'[c] < idx[c] => idx'[c] = idx[c] - 1

\* C15: what an exit hook returns never alters control flow.  Whatever
\* Status the exit calls return, the remaining handlers still get exit in
\* descending order, no on_error is called, chain_exit returns Continue, the
\* marker is left as it was and the Status dispatch returns is unchanged.
C15_ExitReturnsIgnored == [](C15_Completed) /\ [][C15_Step]_vars

C15_Witness ==
    /\ Returned(1) /\ result[1] = Continue
    /\ Indices(log[1], "exit") = <<2, 1, 0>>
    /\ \E a \in 1..Len(log[1]) :
        log[1][a].op = "exit" /\ log[1][a].i = 2 /\ log[1][a].ret = Error("x")

\* chain_exit called on its own is running on c, or was the last call on c.
DirectExit(c) ==
    \/ mode[c] = "direct" /\ pc[c] = "exit"
    \/ last[c] = "chain_exit" /\ pc[c] = "idle"

\* Every exit call in the log is on a handler whose enter was called and
\* returned Continue in the most recent chain_enter.
ExitsCommitted(l) ==
    \A a \in 1..Len(l) : l[a].op = "exit" => Committed(l, l[a].i)

C17_Returned ==
    \A c \in live : pc[c] = "idle" =>
        /\ last[c] = "chain_enter" =>
                Indices(log[c], "exit") = <<>> /\ Indices(log[c], "on_error") = <<>>
        /\ last[c] = "chain_exit" => Indices(log[c], "on_error") = <<>>
        /\ last[c] = "chain_error" => Indices(log[c], "exit") = <<>>

\* A step calls at most one hook, and the hook is the one of the traversal
\* that is running.
C17_Step ==
    \A c \in live :
        \/ Len(log'[c]) <= Len(log[c])
        \/ /\ Len(log'[c]) = Len(log[c]) + 1
           /\ SubSeq(log'[c], 1, Len(log[c])) = log[c]
           /\ LET op == log'[c][Len(log'[c])].op IN
                /\ pc[c] = "enter" => op = "enter"
                /\ pc[c] = "exit" => op = "exit"
                /\ pc[c] = "error" => op = "on_error"
                /\ pc[c] \in {"enter", "exit", "error"}

\* C17: each traversal calls only its own hook.  chain_enter calls enter
\* and never exit or on_error, chain_exit calls exit and never enter or
\* on_error, chain_error calls on_error and never enter or exit.
C17_OwnHookOnly == [](C17_Returned) /\ [][C17_Step]_vars

C17_Witness ==
    /\ last[1] = "chain_error" /\ pc[1] = "idle"
    /\ Indices(log[1], "enter") = <<0, 1, 2>>
    /\ Indices(log[1], "on_error") = <<1, 0>>

\* The log of c is that of a dispatch, running or over.
InDispatch(c) == mode[c] = "dispatch" \/ Over(c)

\* No retry and no resumption: at most one enter per handler, at most N
\* enter calls followed by at most N exit / on_error calls, and no enter
\* call after an enter that returned Unwind or Error.
C18_Bounded ==
    \A c \in live : InDispatch(c) =>
        LET l == log[c]  n == Len(stack[c]) IN
        /\ \A i \in 0..(n - 1) : Count(l, "enter", i) <= 1
        /\ Len(Indices(l, "enter")) <= n
        /\ Len(Indices(l, "exit")) + Len(Indices(l, "on_error")) <= n
        /\ EntersFirst(l)
        /\ \A a, b \in 1..Len(l) :
                a < b /\ l[a].op = "enter" /\ l[b].op = "enter" => l[a].ret = Continue

\* C18: dispatch terminates without retry or resumption.  When the hooks
\* each return, every dispatch eventually returns, having called each
\* handler's enter at most once, at most N enters followed by at most N
\* exit / on_error calls, and no enter after an Unwind or Error.
C18_DispatchTerminates ==
    /\ [](C18_Bounded)
    /\ (mode[1] = "dispatch" /\ pc[1] # "idle") ~> Returned(1)

C18_Witness ==
    /\ Returned(1) /\ Len(stack[1]) = 3
    /\ Indices(log[1], "enter") = <<0, 1>>
    /\ log[1][2].ret = Unwind
    /\ Indices(log[1], "exit") = <<0>>
    /\ began[1].status.tag = "Unwound"

\* C19: marker index bound.  In every state reachable through new, link,
\* duplication, chain_enter, chain_exit, chain_error and dispatch, a marker
\* Unwound(i) or Errored(i) has i < number of linked handlers, so the prefix
\* [0, i) that chain_exit and chain_error take lies within the handlers.
C19_MarkerInBounds ==
    \A c \in live :
        /\ status[c].tag \in {"Unwound", "Errored"} =>
                status[c].i >= 0 /\ status[c].i < Len(stack[c])
        /\ pc[c] \in {"exit", "error"} => idx[c] <= Len(stack[c])
        /\ pc[c] = "failed" =>
                \/ last[c] = "chain_exit" /\ status[c].tag = "Errored"
                \/ last[c] = "chain_error" /\ status[c].tag # "Errored"

C19_Witness ==
    /\ live = {2} /\ last[2] = "clone" /\ pc[2] = "error" /\ idx[2] = 1
    /\ status[2] = Errored(1) /\ Len(stack[2]) = 2
    /\ began[2].n = -1

====
